---- MODULE Spec2Model ----
(***************************************************************************)
(* Termux AI orchestrator (src/termux_ai.py): AI-backend resolution        *)
(* (_init_ai_client), the vibe-coding executor (VibeCoder.execute_task),   *)
(* planning (process_request, generate_code_with_ai, cmd_vibe), package    *)
(* installation (cmd_pkg) and the screen pipeline (capture_screen,         *)
(* cmd_look).                                                              *)
(*                                                                         *)
(* Six specifications share the variables:                                *)
(*   SpecResolve  the constructor's _init_ai_client loop;                  *)
(*   SpecExec     execute_task called on a bounded family of Tasks;        *)
(*   Spec         the prompt loop on vibe and pkg install lines;           *)
(*   SpecLook     the prompt loop on look lines;                           *)
(*   SpecPlan     process_request called on its own;                       *)
(*   SpecLoop     run / _prompt_loop: reading, dispatching, surviving.     *)
(***************************************************************************)
EXTENDS Integers, Sequences, FiniteSets, TLC

\* ------------------------------------------------------------- bounds
\* longest required_packages list of a Task handed to execute_task
MaxCaps == 2
\* longest files_to_create list of a Task handed to execute_task
MaxFiles == 2
\* longest commands_to_run list of a Task handed to execute_task
MaxCmds == 2
\* number of execute_task calls on the same Task
MaxRuns == 2
\* number of vibe / pkg lines typed at the prompt
MaxLines == 2
\* number of look lines typed at the prompt
MaxLooks == 2
\* number of process_request calls made on their own
MaxPlans == 2
\* number of reads of the prompt in the dispatch loop
MaxTyped == 2

VARIABLES
    env,                \* os.environ restricted to the four credentials
    probe_ok,           \* whether client.models.list() would succeed for a credential
    ai_idx,             \* position of the for loop of _init_ai_client
    ai_client,          \* TermuxOrchestrator.ai_client (None or the credential it was built from)
    attempts,           \* one record per probe made: the console lines of _init_ai_client
    real_pkgs,          \* system packages really installed on the device
    real_pip,           \* python packages really installed
    installed_packages, \* TermuxContext.installed_packages
    python_packages,    \* TermuxContext.python_packages
    available_editors,  \* TermuxContext.available_editors
    pc,                 \* position of the orchestrator
    caller,             \* who called execute_task
    task,               \* the VibeTask in hand
    auto_confirm,       \* execute_task's argument
    phase,              \* position inside execute_task
    idx,                \* index of the running for loop of execute_task
    ledger,             \* step outcomes of the running execute_task call
    result,             \* what the last execute_task call returned
    runs,               \* execute_task calls made so far
    fs,                 \* files on disk: set of <<path, content>>
    out,                \* console reports of the handler of the last typed line
    gen_log,            \* models called by generate_code_with_ai, in call order
    last_screenshot,    \* ScreenReader.last_screenshot
    capture_log,        \* capture methods invoked by the last capture_screen
    is_termux,          \* TermuxContext.is_termux
    is_rooted,          \* ScreenReader.is_rooted
    pil_available,      \* PIL_AVAILABLE
    shots,              \* capture artifacts on disk
    captures,           \* capture_screen calls made so far
    shot_path,          \* what the last capture_screen call returned
    cmd,                \* handler the last line or call was dispatched to
    lines,              \* lines typed (calls made) so far
    line,               \* the line _prompt_loop read last
    args,               \* the string _prompt_loop handed to the handler
    generated           \* what generate_code_with_ai returned to the last handler (<<>>: not called)

vars == <<env, probe_ok, ai_idx, ai_client, attempts, real_pkgs, real_pip,
          installed_packages, python_packages, available_editors, pc, caller,
          task, auto_confirm, phase, idx, ledger, result, runs, fs, out,
          gen_log, last_screenshot, capture_log, is_termux, is_rooted,
          pil_available, shots, captures, shot_path, cmd, lines, line, args,
          generated>>

resolveVars == <<env, probe_ok, ai_idx, ai_client, attempts>>
invVars == <<real_pkgs, real_pip, installed_packages, python_packages, available_editors,
             is_termux>>
execVars == <<caller, task, auto_confirm, phase, idx, ledger, result, runs>>
screenVars == <<last_screenshot, capture_log, is_rooted, pil_available, shots, captures,
                shot_path>>

loopVars == <<line, args, generated>>

None == "None"

\* last_screenshot before any privileged or vendor-API capture succeeded
NoShot == <<>>

\* ------------------------------------------------------------ helpers
Range(s) == {s[i] : i \in 1..Len(s)}

SeqsUpTo(S, n) == UNION {[1..k -> S] : k \in 0..n}

\* ================================================= _init_ai_client
\* the keys of the api_keys dict, in insertion (= iteration) order
api_keys == <<"GROQ_API_KEY", "OPENAI_API_KEY", "ANTHROPIC_API_KEY", "LOCALAI_BASE">>

Candidates == Range(api_keys)

\* os.getenv(env_var): absent (None), the empty string, or a non-empty value
EnvValues == {"absent", "empty", "set"}

\* `if api_key:` -- None and "" are both falsy
KeyPresent(v) == env[v] = "set"

\* a VibeTask as its dataclass defaults leave it; id (a uuid prefix) and
\* created_at (the clock) are written as the number of the call that made it
NoTask == [id |-> 0, description |-> <<>>, detected_language |-> None,
           required_packages |-> <<>>, files_to_create |-> <<>>,
           commands_to_run |-> <<>>, dependencies |-> <<>>, created_at |-> 0]

\* everything outside _init_ai_client, as it is before the constructor goes on
RestIdle ==
    /\ real_pkgs = {} /\ real_pip = {}
    /\ installed_packages = {} /\ python_packages = {}
    /\ available_editors = {} /\ is_termux = FALSE
    /\ caller = None /\ task = NoTask /\ auto_confirm = FALSE
    /\ phase = "IDLE" /\ idx = 0 /\ ledger = <<>> /\ result = None /\ runs = 0
    /\ fs = {} /\ out = <<>> /\ gen_log = <<>>
    /\ last_screenshot = NoShot /\ capture_log = <<>>
    /\ is_rooted = FALSE /\ pil_available = FALSE /\ shots = {} /\ captures = 0
    /\ shot_path = NoShot
    /\ cmd = None /\ lines = 0
    /\ line = <<>> /\ args = <<>> /\ generated = <<>>

InitResolve ==
    /\ env \in [Candidates -> EnvValues]
    /\ probe_ok \in [Candidates -> BOOLEAN]
    /\ ai_idx = 1
    /\ ai_client = None
    /\ attempts = <<>>
    /\ pc = "init_ai"
    /\ RestIdle

\* InitAiProbe with a fault: the `return client` of line 1032 is missing, so the
\* loop goes on and a later working credential replaces the first
InitAiProbe_NoReturn ==
    /\ pc = "init_ai"
    /\ ai_idx <= Len(api_keys)
    /\ KeyPresent(api_keys[ai_idx])
    /\ attempts' = Append(attempts,
           [candidate |-> api_keys[ai_idx],
            status |-> IF probe_ok[api_keys[ai_idx]] THEN "ok" ELSE "failed"])
    /\ ai_client' = IF probe_ok[api_keys[ai_idx]] THEN api_keys[ai_idx] ELSE ai_client
    /\ ai_idx' = ai_idx + 1
    /\ pc' = pc
    /\ UNCHANGED <<env, probe_ok>>

\* one iteration of the loop for a credential that is set: build the client,
\* probe it with client.models.list(); success returns it, failure is printed
\* and the loop goes on
InitAiProbe ==
    /\ pc = "init_ai"
    /\ ai_idx <= Len(api_keys)
    /\ KeyPresent(api_keys[ai_idx])
    /\ IF probe_ok[api_keys[ai_idx]]
       THEN /\ attempts' = Append(attempts, [candidate |-> api_keys[ai_idx], status |-> "ok"])
            /\ ai_client' = api_keys[ai_idx]
            /\ pc' = "prompt"
            /\ ai_idx' = ai_idx
       ELSE /\ attempts' = Append(attempts, [candidate |-> api_keys[ai_idx], status |-> "failed"])
            /\ ai_idx' = ai_idx + 1
            /\ UNCHANGED <<ai_client, pc>>
    /\ UNCHANGED <<env, probe_ok>>

\* InitAiSkip with a fault: a credential that is not set is still recorded
InitAiSkip_Recorded ==
    /\ pc = "init_ai"
    /\ ai_idx <= Len(api_keys)
    /\ ~KeyPresent(api_keys[ai_idx])
    /\ ai_idx' = ai_idx + 1
    /\ attempts' = Append(attempts, [candidate |-> api_keys[ai_idx], status |-> "failed"])
    /\ UNCHANGED <<env, probe_ok, ai_client, pc>>

\* one iteration for a credential that is absent or empty: nothing is built,
\* probed or printed
InitAiSkip ==
    /\ pc = "init_ai"
    /\ ai_idx <= Len(api_keys)
    /\ ~KeyPresent(api_keys[ai_idx])
    /\ ai_idx' = ai_idx + 1
    /\ UNCHANGED <<env, probe_ok, ai_client, attempts, pc>>

\* the loop ran out: "No AI API key found", return None
InitAiExhausted ==
    /\ pc = "init_ai"
    /\ ai_idx > Len(api_keys)
    /\ ai_client' = None
    /\ pc' = "prompt"
    /\ UNCHANGED <<env, probe_ok, ai_idx, attempts>>

NextResolve ==
    /\ \/ InitAiProbe
       \/ InitAiSkip
       \/ InitAiExhausted
    /\ UNCHANGED <<loopVars, invVars, execVars, screenVars, fs, out, gen_log, lines, cmd>>

SpecResolve == InitResolve /\ [][NextResolve]_vars

\* the credentials that are set and would answer the probe, by position
Working == {i \in 1..Len(api_keys) : KeyPresent(api_keys[i]) /\ probe_ok[api_keys[i]]}

FirstWorking == CHOOSE i \in Working : \A j \in Working : i <= j

Resolved == pc # "init_ai"

CandidatesOf(log) == [i \in 1..Len(log) |-> log[i].candidate]

IsPresent(v) == KeyPresent(v)

\* C4: when candidate k is the first whose probe succeeds, the client returned
\* is exactly k's, every probe made before it failed without stopping the
\* resolution, and no credential after k was probed.
C4_FallbackOrder ==
    (Resolved /\ Working # {}) =>
        /\ ai_client = api_keys[FirstWorking]
        /\ attempts # <<>>
        /\ attempts[Len(attempts)] = [candidate |-> api_keys[FirstWorking], status |-> "ok"]
        /\ \A i \in 1..(Len(attempts) - 1) : attempts[i].status = "failed"
        /\ \A i \in 1..Len(api_keys) :
              i > FirstWorking => api_keys[i] \notin Range(CandidatesOf(attempts))

\* witness of C4: the second-or-later credential was returned after an earlier
\* one failed its probe, while a later credential would also have answered
C4_Witness ==
    /\ Resolved
    /\ ai_client = "OPENAI_API_KEY"
    /\ Len(attempts) = 2
    /\ attempts[1].status = "failed"
    /\ KeyPresent("LOCALAI_BASE") /\ probe_ok["LOCALAI_BASE"]

\* C5 as claimed: on exhaustion the ledger has one entry for each of the four
\* credentials, in input order, absent ones included.
C5_Original ==
    (Resolved /\ Working = {}) =>
        /\ ai_client = None
        /\ CandidatesOf(attempts) = api_keys

\* C5 amended: on exhaustion None is returned and the ledger has exactly one
\* failed entry for each credential that is set in the environment, in
\* priority order; a credential that is absent or empty leaves no entry.
C5_Exhaustion ==
    (Resolved /\ Working = {}) =>
        /\ ai_client = None
        /\ CandidatesOf(attempts) = SelectSeq(api_keys, IsPresent)
        /\ \A i \in 1..Len(attempts) : attempts[i].status = "failed"

\* witness of C5: resolution ended with no client, two credentials were probed
\* and failed, and one credential was absent
C5_Witness ==
    /\ Resolved
    /\ ai_client = None
    /\ Len(attempts) = 2
    /\ env["GROQ_API_KEY"] = "absent"
    /\ env["OPENAI_API_KEY"] = "set"

\* ================================================= VibeCoder.execute_task
\* (pkg_type, pkg_name) pairs a Task handed to execute_task may require
ExecCaps == {<<"pkg", "python">>, <<"pip", "flask">>}

\* (filepath, content) pairs a Task handed to execute_task may create, in the
\* order it lists them: a script, a plain file in a directory, a script
ExecFiles == <<<<"a.py", "A">>, <<"d/b.txt", "B">>, <<"gen.sh", "C">>>>

\* command strings a Task handed to execute_task may run, in list order
ExecCmds == <<"chmod +x a.py", "./a.py", "ls">>

Min(a, b) == IF a <= b THEN a ELSE b

Prefixes(s, n) == {SubSeq(s, 1, k) : k \in 0..Min(n, Len(s))}

ExecTasks ==
    [id : {0}, description : {<<>>}, detected_language : {None},
     required_packages : SeqsUpTo(ExecCaps, MaxCaps),
     files_to_create : Prefixes(ExecFiles, MaxFiles),
     commands_to_run : Prefixes(ExecCmds, MaxCmds),
     dependencies : {<<>>}, created_at : {0}]

\* str.lower() on the package names that occur
Lower(name) == IF name = "Flask" THEN "flask" ELSE name

\* filepath.endswith(('.sh', '.py')) on the paths that occur
IsScript(path) == path \in {"a.py", "server.py", "backup.sh", "script.py", "app.py", "gen.py", "gen.sh"}

Entry(kind, id, status) == [kind |-> kind, id |-> id, status |-> status]

\* NeedsPkgInstall with a fault: the inventory is not consulted
NeedsPkgInstall_NoCheck(cap) == cap[1] = "pkg"

\* line 805: a system package the inventory does not hold
NeedsPkgInstall(cap) == cap[1] = "pkg" /\ cap[2] \notin installed_packages

\* line 818: a python package the inventory does not hold
NeedsPipInstall(cap) ==
    /\ ~NeedsPkgInstall(cap)
    /\ cap[1] = "pip" /\ Lower(cap[2]) \notin python_packages

\* Path.write_text replaces the file's content
PutFile(files, path, content) ==
    {f \in files : f[1] # path} \cup {<<path, content>>}

\* what the caller does with execute_task's outcome: cmd_vibe prints the
\* success line on True; an exception reaches _prompt_loop's handler
Report(res) ==
    IF caller = "cmd_vibe" /\ res = "True" THEN Append(out, "project_created")
    ELSE IF caller = "cmd_vibe" /\ res = "raised" THEN Append(out, "error")
    ELSE out

\* execute_task is left: by return (True / False) or by an exception
Return(ph, res) ==
    /\ phase' = ph
    /\ result' = res
    /\ pc' = "prompt"
    /\ out' = Report(res)

Running(ph) == pc = "execute" /\ phase = ph

\* ConfirmPlan with a fault: a declined plan only passes over the installs
ConfirmPlan_SkipsInstalls ==
    /\ Running("PENDING")
    /\ \E ans \in (IF auto_confirm THEN {TRUE} ELSE BOOLEAN) :
          /\ phase' = (IF ans THEN "CAPABILITIES" ELSE "FILES")
          /\ idx' = 1
    /\ UNCHANGED <<loopVars, resolveVars, invVars, screenVars, caller, task, auto_confirm,
                   ledger, result, runs, fs, out, gen_log, lines, cmd, pc>>

\* lines 790-792: the plan confirmation, skipped under auto_confirm
ConfirmPlan ==
    /\ Running("PENDING")
    /\ \E ans \in (IF auto_confirm THEN {TRUE} ELSE BOOLEAN) :
          IF ans
          THEN /\ phase' = "CAPABILITIES"
               /\ idx' = 1
               /\ UNCHANGED <<result, pc, out>>
          ELSE /\ Return("ABORTED", "False")
               /\ idx' = idx
    /\ UNCHANGED <<loopVars, resolveVars, invVars, screenVars, caller, task, auto_confirm,
                   ledger, runs, fs, gen_log, lines, cmd>>

CurCap == task.required_packages[idx]

InCaps == Running("CAPABILITIES") /\ idx <= Len(task.required_packages)

\* lines 823-824: the capability is in the inventory (or of no known kind)
CapSkip ==
    /\ InCaps
    /\ ~NeedsPkgInstall(CurCap) /\ ~NeedsPipInstall(CurCap)
    /\ ledger' = Append(ledger, Entry("cap", CurCap, "skipped"))
    /\ idx' = idx + 1
    /\ UNCHANGED <<loopVars, resolveVars, invVars, screenVars, caller, task, auto_confirm,
                   phase, result, runs, fs, out, gen_log, lines, cmd, pc>>

\* lines 805-817: pkg install -y; exit 0 adds the name to the inventory, any
\* other exit asks "Continue anyway?"; a launch failure raises out of the call
CapInstallPkg ==
    /\ InCaps
    /\ NeedsPkgInstall(CurCap)
    /\ \E outcome \in {"ok", "failed", "raised"} :
          CASE outcome = "ok" ->
                 /\ real_pkgs' = real_pkgs \cup {CurCap[2]}
                 /\ installed_packages' = installed_packages \cup {CurCap[2]}
                 /\ ledger' = Append(ledger, Entry("cap", CurCap, "ok"))
                 /\ idx' = idx + 1
                 /\ UNCHANGED <<phase, result, pc, out>>
            [] outcome = "failed" ->
                 /\ UNCHANGED <<real_pkgs, installed_packages>>
                 /\ \E continue \in BOOLEAN :
                       IF continue
                       THEN /\ ledger' = ledger \o <<Entry("cap", CurCap, "failed"),
                                                     Entry("prompt", CurCap, "continue")>>
                            /\ idx' = idx + 1
                            /\ UNCHANGED <<phase, result, pc, out>>
                       ELSE /\ ledger' = ledger \o <<Entry("cap", CurCap, "failed"),
                                                     Entry("prompt", CurCap, "abort")>>
                            /\ idx' = idx
                            /\ Return("ABORTED", "False")
            [] outcome = "raised" ->
                 /\ UNCHANGED <<real_pkgs, installed_packages>>
                 /\ ledger' = Append(ledger, Entry("cap", CurCap, "raised"))
                 /\ idx' = idx
                 /\ Return("RAISED", "raised")
    /\ UNCHANGED <<loopVars, resolveVars, real_pip, python_packages, available_editors,
                   is_termux, screenVars, caller, task, auto_confirm, runs, fs, gen_log, lines, cmd>>

\* lines 818-822: pip install; its exit status is not looked at and the name
\* is added to the inventory
CapInstallPip ==
    /\ InCaps
    /\ NeedsPipInstall(CurCap)
    /\ \E outcome \in {"ok", "failed"} :
          /\ real_pip' = IF outcome = "ok" THEN real_pip \cup {Lower(CurCap[2])} ELSE real_pip
          /\ ledger' = Append(ledger, Entry("cap", CurCap, outcome))
    /\ python_packages' = python_packages \cup {Lower(CurCap[2])}
    /\ idx' = idx + 1
    /\ UNCHANGED <<loopVars, resolveVars, real_pkgs, installed_packages, available_editors,
                   is_termux, screenVars, caller, task, auto_confirm, phase, result, runs,
                   fs, out, gen_log, lines, cmd, pc>>

\* EnterFiles with a fault: the files are started while capabilities are pending
EnterFiles_Early ==
    /\ Running("CAPABILITIES")
    /\ idx >= Len(task.required_packages)
    /\ phase' = "FILES"
    /\ idx' = 1
    /\ UNCHANGED <<loopVars, resolveVars, invVars, screenVars, caller, task, auto_confirm,
                   ledger, result, runs, fs, out, gen_log, lines, cmd, pc>>

\* the for loop of line 802 is exhausted: on to the files
EnterFiles ==
    /\ Running("CAPABILITIES")
    /\ idx > Len(task.required_packages)
    /\ phase' = "FILES"
    /\ idx' = 1
    /\ UNCHANGED <<loopVars, resolveVars, invVars, screenVars, caller, task, auto_confirm,
                   ledger, result, runs, fs, out, gen_log, lines, cmd, pc>>

CurFile == task.files_to_create[idx]

\* Path(filepath).parent is a directory other than "."
HasParentDir(path) == path \in {"d/b.txt"}

\* what materialising a path can do: Path("") is the directory ".", whose
\* write_text always fails; mkdir of the parent can fail when there is a
\* directory to make; chmod is only reached for scripts
WriteOutcomes(path) ==
    IF path = "" THEN {"write_failed"}
    ELSE {"ok", "write_failed"}
         \cup (IF HasParentDir(path) THEN {"mkdir_raised"} ELSE {})
         \cup (IF IsScript(path) THEN {"chmod_failed"} ELSE {})

\* WriteFile with a fault: a failed write is printed and the loop goes on
WriteFile_Continue ==
    /\ Running("FILES")
    /\ idx <= Len(task.files_to_create)
    /\ \E outcome \in {"ok", "write_failed"} :
          /\ fs' = IF outcome = "ok" THEN PutFile(fs, CurFile[1], CurFile[2]) ELSE fs
          /\ ledger' = Append(ledger, Entry("file", CurFile[1],
                                            IF outcome = "ok" THEN "ok" ELSE "failed"))
    /\ idx' = idx + 1
    /\ UNCHANGED <<loopVars, resolveVars, invVars, screenVars, caller, task, auto_confirm,
                   phase, result, runs, out, gen_log, lines, cmd, pc>>

\* WriteFile with a fault: the file loop consumes the Task's list as it goes
WriteFile_Consumes ==
    /\ Running("FILES")
    /\ task.files_to_create # <<>>
    /\ fs' = PutFile(fs, Head(task.files_to_create)[1], Head(task.files_to_create)[2])
    /\ ledger' = Append(ledger, Entry("file", Head(task.files_to_create)[1], "ok"))
    /\ task' = [task EXCEPT !.files_to_create = Tail(@)]
    /\ idx' = 1
    /\ UNCHANGED <<loopVars, resolveVars, invVars, screenVars, caller, auto_confirm,
                   phase, result, runs, out, gen_log, lines, cmd, pc>>

\* WriteFile with a fault: a failed write removes the files of the Task
\* written before it
WriteFile_Rollback ==
    /\ Running("FILES")
    /\ idx <= Len(task.files_to_create)
    /\ \E outcome \in {"ok", "write_failed"} :
          IF outcome = "ok"
          THEN /\ fs' = PutFile(fs, CurFile[1], CurFile[2])
               /\ ledger' = Append(ledger, Entry("file", CurFile[1], "ok"))
               /\ idx' = idx + 1
               /\ UNCHANGED <<phase, result, pc, out>>
          ELSE /\ fs' = {f \in fs : \A i \in 1..Len(task.files_to_create) :
                                       f[1] # task.files_to_create[i][1]}
               /\ ledger' = Append(ledger, Entry("file", CurFile[1], "failed"))
               /\ idx' = idx
               /\ Return("ABORTED", "False")
    /\ UNCHANGED <<loopVars, resolveVars, invVars, screenVars, caller, task, auto_confirm,
                   runs, gen_log, lines, cmd>>

\* lines 827-842: mkdir of the parent (outside the try), write_text, chmod of
\* scripts; an exception inside the try returns False
WriteFile ==
    /\ Running("FILES")
    /\ idx <= Len(task.files_to_create)
    /\ \E outcome \in WriteOutcomes(CurFile[1]) :
          CASE outcome = "ok" ->
                 /\ fs' = PutFile(fs, CurFile[1], CurFile[2])
                 /\ ledger' = Append(ledger, Entry("file", CurFile[1], "ok"))
                 /\ idx' = idx + 1
                 /\ UNCHANGED <<phase, result, pc, out>>
            [] outcome = "mkdir_raised" ->
                 /\ fs' = fs
                 /\ ledger' = Append(ledger, Entry("file", CurFile[1], "raised"))
                 /\ idx' = idx
                 /\ Return("RAISED", "raised")
            [] outcome = "write_failed" ->
                 /\ fs' = fs
                 /\ ledger' = Append(ledger, Entry("file", CurFile[1], "failed"))
                 /\ idx' = idx
                 /\ Return("ABORTED", "False")
            [] outcome = "chmod_failed" ->
                 /\ fs' = PutFile(fs, CurFile[1], CurFile[2])
                 /\ ledger' = Append(ledger, Entry("file", CurFile[1], "chmod_failed"))
                 /\ idx' = idx
                 /\ Return("ABORTED", "False")
    /\ UNCHANGED <<loopVars, resolveVars, invVars, screenVars, caller, task, auto_confirm,
                   runs, gen_log, lines, cmd>>

\* the for loop of line 827 is exhausted: on to the commands
EnterCommands ==
    /\ Running("FILES")
    /\ idx > Len(task.files_to_create)
    /\ phase' = "COMMANDS"
    /\ idx' = 1
    /\ UNCHANGED <<loopVars, resolveVars, invVars, screenVars, caller, task, auto_confirm,
                   ledger, result, runs, fs, out, gen_log, lines, cmd, pc>>

CurCmd == task.commands_to_run[idx]

\* RunCommand with a fault: a declined command ends the loop (break for continue)
RunCommand_Break ==
    /\ Running("COMMANDS")
    /\ idx <= Len(task.commands_to_run)
    /\ \E run \in BOOLEAN :
          IF run
          THEN /\ ledger' = Append(ledger, Entry("cmd", CurCmd, "ok"))
               /\ idx' = idx + 1
          ELSE /\ ledger' = Append(ledger, Entry("cmd", CurCmd, "skipped"))
               /\ idx' = Len(task.commands_to_run) + 1
    /\ UNCHANGED <<loopVars, resolveVars, invVars, screenVars, caller, task, auto_confirm,
                   phase, result, runs, fs, out, gen_log, lines, cmd, pc>>

\* RunCommand with a fault: a non-zero exit or a launch error returns False
RunCommand_FailStops ==
    /\ Running("COMMANDS")
    /\ idx <= Len(task.commands_to_run)
    /\ \E run \in BOOLEAN, outcome \in {"ok", "nonzero", "error"} :
          IF run /\ outcome # "ok"
          THEN /\ ledger' = Append(ledger, Entry("cmd", CurCmd, outcome))
               /\ idx' = idx
               /\ Return("ABORTED", "False")
          ELSE /\ ledger' = Append(ledger, Entry("cmd", CurCmd, IF run THEN "ok" ELSE "skipped"))
               /\ idx' = idx + 1
               /\ UNCHANGED <<phase, result, pc, out>>
    /\ UNCHANGED <<loopVars, resolveVars, invVars, screenVars, caller, task, auto_confirm,
                   runs, fs, gen_log, lines, cmd>>

\* lines 847-857: "Run this command?"; a declined command is passed over, a
\* confirmed one is run and neither its exit status nor an exception stops the loop
RunCommand ==
    /\ Running("COMMANDS")
    /\ idx <= Len(task.commands_to_run)
    /\ \E run \in BOOLEAN :
          IF run
          THEN \E outcome \in {"ok", "nonzero", "error"} :
                   ledger' = Append(ledger, Entry("cmd", CurCmd, outcome))
          ELSE ledger' = Append(ledger, Entry("cmd", CurCmd, "skipped"))
    /\ idx' = idx + 1
    /\ UNCHANGED <<loopVars, resolveVars, invVars, screenVars, caller, task, auto_confirm,
                   phase, result, runs, fs, out, gen_log, lines, cmd, pc>>

\* Finish with a fault: the result is False unless every command ran and exited 0
Finish_ChecksCommands ==
    /\ Running("COMMANDS")
    /\ idx > Len(task.commands_to_run)
    /\ IF \E i \in 1..Len(ledger) : ledger[i].kind = "cmd" /\ ledger[i].status # "ok"
       THEN Return("ABORTED", "False")
       ELSE Return("DONE", "True")
    /\ UNCHANGED <<loopVars, resolveVars, invVars, screenVars, caller, task, auto_confirm,
                   idx, ledger, runs, fs, gen_log, lines, cmd>>

\* line 859: return True
Finish ==
    /\ Running("COMMANDS")
    /\ idx > Len(task.commands_to_run)
    /\ Return("DONE", "True")
    /\ UNCHANGED <<loopVars, resolveVars, invVars, screenVars, caller, task, auto_confirm,
                   idx, ledger, runs, fs, gen_log, lines, cmd>>

ExecuteStep ==
    \/ ConfirmPlan
    \/ CapSkip
    \/ CapInstallPkg
    \/ CapInstallPip
    \/ EnterFiles
    \/ WriteFile
    \/ EnterCommands
    \/ RunCommand
    \/ Finish

\* execute_task(task, auto_confirm) called on the Task in hand
CallExecuteTask ==
    /\ pc = "prompt"
    /\ runs < MaxRuns
    /\ auto_confirm' \in BOOLEAN
    /\ caller' = "api"
    /\ phase' = "PENDING"
    /\ idx' = 0
    /\ ledger' = <<>>
    /\ result' = None
    /\ runs' = runs + 1
    /\ pc' = "execute"
    /\ UNCHANGED <<loopVars, resolveVars, invVars, screenVars, task, fs, out, gen_log, lines, cmd>>

\* the editors of scan_environment's list that the modelled packages provide
Editors == {"nano"}

\* the inventory as TermuxContext.scan_environment leaves it: the packages
\* really installed when the device is Termux, nothing otherwise
InitInventory(pkgs, pips) ==
    /\ real_pkgs \in SUBSET pkgs
    /\ real_pip \in SUBSET pips
    /\ is_termux \in BOOLEAN
    /\ installed_packages = (IF is_termux THEN real_pkgs ELSE {})
    /\ python_packages = (IF is_termux THEN real_pip ELSE {})
    /\ available_editors = (IF is_termux THEN real_pkgs \cap Editors ELSE {})

InitExec ==
    /\ env = [v \in Candidates |-> "absent"]
    /\ probe_ok = [v \in Candidates |-> FALSE]
    /\ ai_idx = Len(api_keys) + 1
    /\ ai_client = None
    /\ attempts = <<>>
    /\ InitInventory({"python"}, {"flask"})
    /\ pc = "prompt"
    /\ caller = None
    /\ task \in ExecTasks
    /\ auto_confirm = FALSE
    /\ phase = "IDLE" /\ idx = 0 /\ ledger = <<>> /\ result = None /\ runs = 0
    /\ fs = {} /\ out = <<>> /\ gen_log = <<>>
    /\ last_screenshot = NoShot /\ capture_log = <<>>
    /\ is_rooted = FALSE /\ pil_available = FALSE /\ shots = {} /\ captures = 0
    /\ shot_path = NoShot
    /\ cmd = None /\ lines = 0
    /\ line = <<>> /\ args = <<>> /\ generated = <<>>

NextExec ==
    \/ CallExecuteTask
    \/ ExecuteStep

SpecExec == InitExec /\ [][NextExec]_vars

\* ------------------------------------------------ claims on execute_task
IsCapEntry(e) == e.kind = "cap"
IsFileEntry(e) == e.kind = "file"
IsCmdEntry(e) == e.kind = "cmd"

IdsOf(log) == [i \in 1..Len(log) |-> log[i].id]

\* the capability is in the inventory the executor consults
Satisfied(cap) ==
    \/ cap[1] = "pkg" /\ cap[2] \in installed_packages
    \/ cap[1] = "pip" /\ Lower(cap[2]) \in python_packages

\* C1: a file whose write fails is the last thing the execution does: no later
\* file is written, no command is offered or run, and execute_task has
\* returned False (ABORTED).
C1_FileFailureAborts ==
    \A i \in 1..Len(ledger) :
        (ledger[i].kind = "file" /\ ledger[i].status \in {"failed", "chmod_failed"}) =>
            /\ i = Len(ledger)
            /\ SelectSeq(ledger, IsCmdEntry) = <<>>
            /\ phase = "ABORTED"
            /\ result = "False"
            /\ pc = "prompt"

\* witness of C1: a Task with 2 files and 2 commands whose first write failed
C1_Witness ==
    /\ Len(task.files_to_create) = 2
    /\ Len(task.commands_to_run) = 2
    /\ phase = "ABORTED"
    /\ SelectSeq(ledger, IsFileEntry) = <<Entry("file", "a.py", "failed")>>

PhaseBefore(ph) ==
    CASE ph = "CAPABILITIES" -> {"PENDING", "CAPABILITIES"}
      [] ph = "FILES" -> {"CAPABILITIES", "FILES"}
      [] ph = "COMMANDS" -> {"FILES", "COMMANDS"}
      [] ph = "DONE" -> {"COMMANDS"}
      [] ph = "ABORTED" -> {"PENDING", "CAPABILITIES", "FILES"}
      [] ph = "RAISED" -> {"CAPABILITIES", "FILES"}
      [] OTHER -> {}

\* C2: inside one execution a phase is entered only from itself or from its
\* predecessor in PENDING -> CAPABILITIES -> FILES -> COMMANDS -> DONE; a file
\* step happens only when every capability has its entry, a command step only
\* when every file has been written.
C2_PhaseOrder ==
    [][pc = "execute" =>
         /\ phase \in PhaseBefore(phase')
         /\ (Len(SelectSeq(ledger', IsFileEntry)) > Len(SelectSeq(ledger, IsFileEntry)) =>
                Len(SelectSeq(ledger, IsCapEntry)) = Len(task.required_packages))
         /\ (Len(SelectSeq(ledger', IsCmdEntry)) > Len(SelectSeq(ledger, IsCmdEntry)) =>
                /\ Len(SelectSeq(ledger, IsCapEntry)) = Len(task.required_packages)
                /\ IdsOf(SelectSeq(ledger, IsFileEntry))
                     = [i \in 1..Len(task.files_to_create) |-> task.files_to_create[i][1]]
                /\ \A i \in 1..Len(ledger) : ledger[i].kind = "file" => ledger[i].status = "ok")
      ]_vars

\* witness of C2: an execution with capabilities, files and commands reached DONE
C2_Witness ==
    /\ phase = "DONE"
    /\ Len(task.required_packages) = 2
    /\ Len(task.files_to_create) = 2
    /\ Len(task.commands_to_run) = 2
    /\ Len(ledger) >= 6

\* C3 as claimed: every capability whose installation fails is followed by the
\* operator's continue/abort prompt for it.
C3_InstallFailurePrompts ==
    \A i \in 1..Len(ledger) :
        (ledger[i].kind = "cap" /\ ledger[i].status = "failed") =>
            /\ i < Len(ledger)
            /\ ledger[i + 1].kind = "prompt"
            /\ ledger[i + 1].id = ledger[i].id

\* C8: a CAPABILITIES step on a capability the inventory already holds makes
\* no install attempt: it records `skipped` and leaves the inventory and the
\* device's packages as they are -- in the first execution and in every later one.
C8_IdempotentCapability ==
    [][(InCaps /\ Satisfied(CurCap)) =>
         /\ ledger' = Append(ledger, Entry("cap", CurCap, "skipped"))
         /\ installed_packages' = installed_packages
         /\ python_packages' = python_packages
         /\ real_pkgs' = real_pkgs
         /\ real_pip' = real_pip
         /\ phase' = "CAPABILITIES"
      ]_vars

\* witness of C8: the second execution of the plan skipped both capabilities
C8_Witness ==
    /\ runs = 2
    /\ task.required_packages = <<<<"pkg", "python">>, <<"pip", "flask">>>>
    /\ SelectSeq(ledger, IsCapEntry) =
           <<Entry("cap", <<"pkg", "python">>, "skipped"),
             Entry("cap", <<"pip", "flask">>, "skipped")>>

\* C9 as claimed: the inventory only lists packages whose installation
\* succeeded, i.e. packages the device really has.
C9_InventoryOnlyOnSuccess ==
    /\ installed_packages \subseteq real_pkgs
    /\ python_packages \subseteq real_pip

\* C10: when the COMMANDS phase is over every command of the Task has its
\* entry, in list order, whatever was declined before it; while the phase runs
\* the entries are the commands before the current one; a declined command is
\* recorded `skipped` (not run).
C10_CommandIndependence ==
    /\ phase = "DONE" =>
          IdsOf(SelectSeq(ledger, IsCmdEntry)) = task.commands_to_run
    /\ Running("COMMANDS") =>
          IdsOf(SelectSeq(ledger, IsCmdEntry)) = SubSeq(task.commands_to_run, 1, idx - 1)

\* witness of C10: the first command was declined, the second was offered and run
C10_Witness ==
    /\ phase = "DONE"
    /\ Len(task.commands_to_run) = 2
    /\ SelectSeq(ledger, IsCmdEntry) =
           <<Entry("cmd", "chmod +x a.py", "skipped"), Entry("cmd", "./a.py", "ok")>>

\* C11: a confirmed command that exits non-zero, or whose launch raises, does
\* not end the execution: the COMMANDS phase goes on with the next command, no
\* command is left out, and the only way the execution ends is DONE (True).
C11_CommandFailureNonFatal ==
    \A i \in 1..Len(ledger) :
        (ledger[i].kind = "cmd" /\ ledger[i].status \in {"nonzero", "error"}) =>
            /\ phase \in {"COMMANDS", "DONE"}
            /\ phase = "COMMANDS" =>
                   /\ pc = "execute"
                   /\ result = None
                   /\ idx = Len(SelectSeq(ledger, IsCmdEntry)) + 1
            /\ phase = "DONE" =>
                   /\ result = "True"
                   /\ IdsOf(SelectSeq(ledger, IsCmdEntry)) = task.commands_to_run

\* witness of C11: the first command could not be launched, the second exited
\* non-zero, and the execution ended DONE
C11_Witness ==
    /\ phase = "DONE"
    /\ result = "True"
    /\ SelectSeq(ledger, IsCmdEntry) =
           <<Entry("cmd", "chmod +x a.py", "error"), Entry("cmd", "./a.py", "nonzero")>>

\* C12: the step that answers the plan confirmation with no ends execute_task
\* at once: it returns False (ABORTED) with an empty ledger (no install, no
\* file, no command) and leaves the inventory, the device's packages and the
\* file system as they were; entering execute_task changes none of them either.
C12_DeclinedPlanNoEffects ==
    [][/\ (pc = "prompt" /\ pc' = "execute") =>
             /\ phase' = "PENDING"
             /\ ledger' = <<>>
             /\ UNCHANGED <<fs, invVars>>
       /\ (Running("PENDING") /\ phase' # "CAPABILITIES") =>
             /\ ~auto_confirm
             /\ phase' = "ABORTED"
             /\ result' = "False"
             /\ pc' = "prompt"
             /\ ledger' = <<>>
             /\ UNCHANGED <<fs, invVars>>
      ]_vars

\* witness of C12: the first execution created files, the second was declined
\* at the plan confirmation and left them and the inventory in place
C12_Witness ==
    /\ runs = 2
    /\ phase = "ABORTED"
    /\ result = "False"
    /\ ledger = <<>>
    /\ Len(task.required_packages) = 2
    /\ fs = {<<"a.py", "A">>, <<"d/b.txt", "B">>}

\* install attempts the running execution made for a capability
InstallAttempts(cap) ==
    {i \in 1..Len(ledger) :
        ledger[i].kind = "cap" /\ ledger[i].id = cap /\ ledger[i].status # "skipped"}

\* C18 as claimed: one execution makes at most one install attempt for a
\* capability, however often the Task lists it.
C18_DuplicateCapabilityOnce ==
    \A cap \in ExecCaps : Cardinality(InstallAttempts(cap)) <= 1

\* C20: no step of execute_task, from its first to the one that returns or
\* raises, changes any field of the Task.
C20_TaskReadOnly ==
    [][pc = "execute" => task' = task]_vars

\* witness of C20: an execution that installed a package and wrote two files
\* ended DONE with the Task as it was handed in
C20_Witness ==
    /\ phase = "DONE"
    /\ ~is_termux
    /\ "python" \in installed_packages
    /\ fs = {<<"a.py", "A">>, <<"d/b.txt", "B">>}
    /\ task.files_to_create = SubSeq(ExecFiles, 1, 2)
    /\ task.commands_to_run = SubSeq(ExecCmds, 1, 2)
    /\ Len(task.required_packages) = 2

\* C22 as claimed: whatever fails while a file is materialised (mkdir of the
\* parent, the write, chmod), execute_task returns False.
C22_FileFailureHalts ==
    \A i \in 1..Len(ledger) :
        (ledger[i].kind = "file" /\ ledger[i].status # "ok") =>
            /\ pc = "prompt"
            /\ phase = "ABORTED"
            /\ result = "False"

\* execute_task has been left
Finished == pc = "prompt" /\ phase \in {"DONE", "ABORTED", "RAISED"}

\* only a declined plan ends an execution with nothing in its ledger but ABORTED
PlanConfirmed == ~(phase = "ABORTED" /\ ledger = <<>>)

AbortAnswered ==
    \E i \in 1..Len(ledger) : ledger[i].kind = "prompt" /\ ledger[i].status = "abort"

InstallRaised ==
    \E i \in 1..Len(ledger) : ledger[i].kind = "cap" /\ ledger[i].status = "raised"

\* the content of the file reached the disk
IsWrittenEntry(e) == e.kind = "file" /\ e.status \in {"ok", "chmod_failed"}

\* the file was written and, if a script, made executable
IsMaterialisedEntry(e) == e.kind = "file" /\ e.status = "ok"

FilePaths(t) == [i \in 1..Len(t.files_to_create) |-> t.files_to_create[i][1]]

C26_NoRollback ==
    /\ [](LET fe == SelectSeq(ledger, IsFileEntry)
          IN \A j \in 1..Len(fe) :
                /\ fe[j].id = task.files_to_create[j][1]
                /\ fe[j].status = "ok" => task.files_to_create[j] \in fs
                /\ fe[j].status # "ok" =>
                      /\ j = Len(fe)
                      /\ runs = 1 =>
                            \A m \in (j + 1)..Len(task.files_to_create) :
                                \A f \in fs : f[1] # task.files_to_create[m][1])
    /\ [][\A f \in fs : \E g \in fs' : g[1] = f[1]]_vars

\* witness of C26: the second file could not be written; the first is on disk
C26_Witness ==
    /\ runs = 1
    /\ phase = "ABORTED"
    /\ SelectSeq(ledger, IsFileEntry) =
           <<Entry("file", "a.py", "ok"), Entry("file", "d/b.txt", "failed")>>
    /\ fs = {<<"a.py", "A">>}

\* ================================================= VibeCoder.process_request
\* A description is the tuple of its characters.
UpperCase == <<"A", "B", "C", "D", "E", "F", "G", "H", "I", "J", "K", "L", "M", "N", "O", "P", "Q", "R", "S", "T", "U", "V", "W", "X", "Y", "Z">>
LowerCase == <<"a", "b", "c", "d", "e", "f", "g", "h", "i", "j", "k", "l", "m", "n", "o", "p", "q", "r", "s", "t", "u", "v", "w", "x", "y", "z">>

\* str.lower(), character by character
LowerChar(c) ==
    IF \E i \in 1..Len(UpperCase) : UpperCase[i] = c
    THEN LowerCase[CHOOSE i \in 1..Len(UpperCase) : UpperCase[i] = c]
    ELSE c

ToLower(str) == [i \in 1..Len(str) |-> LowerChar(str[i])]

\* `pattern in text` on strings: pattern occurs as a contiguous substring
Contains(pattern, text) ==
    \E i \in 0..(Len(text) - Len(pattern)) : SubSeq(text, i + 1, i + Len(pattern)) = pattern

\* lang_patterns, in the dict's insertion order
lang_patterns ==
    <<<<"python", <<<<"p", "y", "t", "h", "o", "n">>,
            <<"d", "j", "a", "n", "g", "o">>,
            <<"f", "l", "a", "s", "k">>,
            <<"s", "c", "r", "i", "p", "t">>,
            <<".", "p", "y">>,
            <<"a", "u", "t", "o", "m", "a", "t", "i", "o", "n">>,
            <<"d", "a", "t", "a">>>>>>,
       <<"javascript", <<<<"j", "a", "v", "a", "s", "c", "r", "i", "p", "t">>,
            <<"n", "o", "d", "e">>,
            <<"j", "s", " ">>,
            <<"e", "x", "p", "r", "e", "s", "s">>,
            <<"r", "e", "a", "c", "t">>,
            <<"w", "e", "b", "s", "i", "t", "e">>>>>>,
       <<"typescript", <<<<"t", "y", "p", "e", "s", "c", "r", "i", "p", "t">>,
            <<"t", "s", " ">>,
            <<"a", "n", "g", "u", "l", "a", "r">>>>>>,
       <<"bash", <<<<"b", "a", "s", "h">>,
            <<"s", "h", "e", "l", "l">>,
            <<".", "s", "h">>,
            <<"s", "c", "r", "i", "p", "t">>,
            <<"a", "u", "t", "o", "m", "a", "t", "e">>,
            <<"b", "a", "c", "k", "u", "p">>>>>>,
       <<"html", <<<<"h", "t", "m", "l">>,
            <<"w", "e", "b", "s", "i", "t", "e">>,
            <<"w", "e", "b", " ", "p", "a", "g", "e">>,
            <<"l", "a", "n", "d", "i", "n", "g">>>>>>,
       <<"go", <<<<"g", "o", "l", "a", "n", "g">>,
            <<"g", "o", " ">>,
            <<"g", "o", " ", "p", "r", "o", "g", "r", "a", "m">>>>>>,
       <<"rust", <<<<"r", "u", "s", "t">>,
            <<"c", "a", "r", "g", "o">>,
            <<"r", "u", "s", "t", " ", "p", "r", "o", "g", "r", "a", "m">>>>>>,
       <<"c", <<<<"c", " ", "p", "r", "o", "g", "r", "a", "m">>,
            <<"c", " ">>,
            <<"c", " ", "c", "o", "d", "e">>>>>>,
       <<"cpp", <<<<"c", "+", "+">>,
            <<"c", "p", "p">>,
            <<"c", " ", "p", "l", "u", "s">>>>>>>>

LangMatches(i, desc_lower) ==
    \E k \in 1..Len(lang_patterns[i][2]) : Contains(lang_patterns[i][2][k], desc_lower)

\* DetectLanguage with a fault: python is assumed when nothing matches
DetectLanguage_Default(desc_lower) ==
    IF \E i \in 1..Len(lang_patterns) : LangMatches(i, desc_lower)
    THEN lang_patterns[CHOOSE i \in 1..Len(lang_patterns) :
                          /\ LangMatches(i, desc_lower)
                          /\ \A j \in 1..(i - 1) : ~LangMatches(j, desc_lower)][1]
    ELSE "python"

\* lines 738-741: the first language, in table order, one of whose patterns
\* occurs in the lower-cased description
DetectLanguage(desc_lower) ==
    IF \E i \in 1..Len(lang_patterns) : LangMatches(i, desc_lower)
    THEN lang_patterns[CHOOSE i \in 1..Len(lang_patterns) :
                          /\ LangMatches(i, desc_lower)
                          /\ \A j \in 1..(i - 1) : ~LangMatches(j, desc_lower)][1]
    ELSE None

kw_web_server == <<"w", "e", "b", " ", "s", "e", "r", "v", "e", "r">>
kw_backup == <<"b", "a", "c", "k", "u", "p">>
kw_quick_script == <<"q", "u", "i", "c", "k", " ", "s", "c", "r", "i", "p", "t">>
kw_web == <<"w", "e", "b">>
kw_server == <<"s", "e", "r", "v", "e", "r">>

\* TemplateFor with a fault: the description must equal the key phrase
TemplateFor_Exact(desc_lower, lang) ==
    IF desc_lower = kw_web_server /\ lang = "python" THEN "python_web_server"
    ELSE IF desc_lower = kw_backup /\ lang = "bash" THEN "bash_backup_script"
    ELSE IF desc_lower = kw_quick_script /\ lang = "python" THEN "python_quick_script"
    ELSE None

\* lines 743-760: the template chain; the name of the template that applies
TemplateFor(desc_lower, lang) ==
    IF Contains(kw_web_server, desc_lower) /\ lang = "python" THEN "python_web_server"
    ELSE IF Contains(kw_backup, desc_lower) /\ lang = "bash" THEN "bash_backup_script"
    ELSE IF Contains(kw_quick_script, desc_lower) /\ lang = "python" THEN "python_quick_script"
    ELSE None

\* the file a template creates; its content is the template's text, named here
TemplateFiles(t) ==
    CASE t = "python_web_server" -> <<<<"server.py", "python_web_server">>>>
      [] t = "bash_backup_script" -> <<<<"backup.sh", "bash_backup_script">>>>
      [] t = "python_quick_script" -> <<<<"script.py", "python_quick_script">>>>
      [] OTHER -> <<>>

TemplateCommands(t) ==
    CASE t = "python_web_server" -> <<"python server.py">>
      [] t = "bash_backup_script" -> <<"chmod +x backup.sh", "./backup.sh">>
      [] t = "python_quick_script" -> <<"chmod +x script.py", "./script.py">>
      [] OTHER -> <<>>

\* line 748: only the web-server template names a package itself
TemplatePackages(t) ==
    IF t = "python_web_server" THEN <<<<"pkg", "python">>>> ELSE <<>>

\* lines 762-773: packages by language
LanguagePackages(desc_lower, lang) ==
    CASE lang = "python" ->
             <<<<"pkg", "python">>>> \o
             (IF Contains(kw_web, desc_lower) \/ Contains(kw_server, desc_lower)
              THEN <<<<"pip", "flask">>>> ELSE <<>>)
      [] lang = "javascript" -> <<<<"pkg", "nodejs">>>>
      [] OTHER -> <<>>

\* lines 775-777: an editor is asked for when none is known
EditorPackages(editors) == IF editors = {} THEN <<<<"pkg", "nano">>>> ELSE <<>>

\* ProcessRequest with a fault: the template chain is if / if / if, so every
\* template whose condition holds is applied
ProcessRequest_AllTemplates(description, editors) ==
    LET desc_lower == ToLower(description)
        lang == DetectLanguage(desc_lower)
        web == IF Contains(kw_web_server, desc_lower) /\ lang = "python"
               THEN "python_web_server" ELSE None
        backup == IF Contains(kw_backup, desc_lower) /\ lang = "bash"
                  THEN "bash_backup_script" ELSE None
        quick == IF Contains(kw_quick_script, desc_lower) /\ lang = "python"
                 THEN "python_quick_script" ELSE None
    IN [NoTask EXCEPT
           !.description = description,
           !.detected_language = lang,
           !.required_packages = TemplatePackages(web) \o LanguagePackages(desc_lower, lang)
                                   \o EditorPackages(editors),
           !.files_to_create = TemplateFiles(web) \o TemplateFiles(backup)
                                 \o TemplateFiles(quick),
           !.commands_to_run = TemplateCommands(web) \o TemplateCommands(backup)
                                 \o TemplateCommands(quick)]

\* process_request(description) in an environment with the given editors; the
\* caller stamps id and created_at
ProcessRequest(description, editors) ==
    LET desc_lower == ToLower(description)
        lang == DetectLanguage(desc_lower)
        t == TemplateFor(desc_lower, lang)
    IN [NoTask EXCEPT
           !.description = description,
           !.detected_language = lang,
           !.required_packages = TemplatePackages(t) \o LanguagePackages(desc_lower, lang)
                                   \o EditorPackages(editors),
           !.files_to_create = TemplateFiles(t),
           !.commands_to_run = TemplateCommands(t)]

\* what is typed after `vibe`
Descriptions ==
    {<<"c", "r", "e", "a", "t", "e", " ", "a", " ", "p", "y", "t", "h", "o", "n", " ", "w", "e", "b", " ", "s", "e", "r", "v", "e", "r">>,
     <<"b", "a", "s", "h", " ", "b", "a", "c", "k", "u", "p">>,
     <<"q", "u", "i", "c", "k", " ", "s", "c", "r", "i", "p", "t">>,
     <<"j", "a", "v", "a", "s", "c", "r", "i", "p", "t", " ", "t", "i", "m", "e", "r">>,
     <<"g", "o", " ", "h", "t", "t", "p">>,
     <<"r", "u", "s", "t", " ", "c", "l", "i", " ", "t", "o", "o", "l", " ", "n", "o", "w">>,
     <<"P", "y", "t", "h", "o", "n", " ", "D", "a", "t", "a", " ", "P", "l", "o", "t">>,
     <<>>}

\* process_request on every description typed, in every editor environment
Planned ==
    [p \in Descriptions \X (SUBSET Editors) |-> ProcessRequest(p[1], p[2])] @@ <<>>

\* VibeTask(description=description), line 722: the n-th Task made gets its own
\* id and creation time
Stamped(t, n) == [t EXCEPT !.id = n, !.created_at = n]

\* descriptions handed to process_request directly: those typed after `vibe`,
\* one that meets the conditions of two templates, and one with a template's
\* key phrase but no language
PlanDescriptions ==
    Descriptions \cup
    {<<"q", "u", "i", "c", "k", " ", "s", "c", "r", "i", "p", "t", " ", "w", "e", "b", " ", "s", "e", "r", "v", "e", "r">>,
     <<"w", "e", "b", " ", "s", "e", "r", "v", "e", "r">>}

\* process_request on every description handed to it, in every editor environment
PlannedDirect ==
    [p \in PlanDescriptions \X (SUBSET Editors) |-> ProcessRequest(p[1], p[2])] @@ <<>>

\* task = vibe_coder.process_request(description), called on its own;
\* project_history, which only the history builtin reads, is left out
CallProcessRequest ==
    /\ pc = "prompt"
    /\ lines < MaxPlans
    /\ lines' = lines + 1
    /\ cmd' = "process_request"
    /\ \E description \in PlanDescriptions :
          task' = Stamped(PlannedDirect[<<description, available_editors>>], lines')
    /\ out' = <<>>
    /\ gen_log' = <<>>
    /\ UNCHANGED <<loopVars, resolveVars, invVars, screenVars, caller, auto_confirm, phase, idx,
                   ledger, result, runs, fs, pc>>

\* ================================================= generate_code_with_ai
models_to_try == <<"llama-3.3-70b-versatile", "llama-3.1-8b-instant", "gpt-3.5-turbo", "gpt-4">>

\* what a model's answer is once stripped and cleaned of fences and preamble:
\* source text, nothing at all, or text that quotes "AI not available"
Responses == {"generated code", "", "# AI not available offline"}

\* `"AI not available" in code`
MentionsNotAvailable(code) == code \in {"AI not available", "# AI not available offline"}

\* lines 913-926: "<base_name>.<ext>"; the base name (the first three words of
\* the description) is written gen, the extension is ext_map's
GenFileName(language) ==
    CASE language = "python" -> "gen.py"
      [] language = "javascript" -> "gen.js"
      [] language = "typescript" -> "gen.ts"
      [] language = "go" -> "gen.go"
      [] language = "rust" -> "gen.rs"
      [] language = "c" -> "gen.c"
      [] language = "cpp" -> "gen.cpp"
      [] language = "bash" -> "gen.sh"
      [] language = "html" -> "gen.html"
      [] OTHER -> "gen.txt"

\* GenCalls with a fault: the first failing model ends the chain
GenCalls_FailureAborts(k) ==
    IF k = 1
    THEN <<[model |-> models_to_try[1], status |-> "ok"]>>
    ELSE <<[model |-> models_to_try[1], status |-> "failed"]>>

\* the calls generate_code_with_ai makes when model k is the first to answer
\* (k = 0: none answers): every model before k raised and the loop went on
GenCalls(k) ==
    [i \in 1..(IF k = 0 THEN Len(models_to_try) ELSE k) |->
        [model |-> models_to_try[i], status |-> IF i = k THEN "ok" ELSE "failed"]]

\* (filename, code) returned: line 928 for the first answer, line 934 when
\* every model failed
GenResult(k, response, language) ==
    IF k = 0 THEN <<"", "All AI models failed">>
    ELSE <<GenFileName(language), response>>

\* ================================================= TermuxOrchestrator.cmd_vibe
\* line 1393: `if code and "AI not available" not in code`
AcceptsGenerated(code) == code # "" /\ ~MentionsNotAvailable(code)

\* lines 1387-1400: the Task after the generative step, given what
\* generate_code_with_ai returned
WithGenerated(t, gen) ==
    IF AcceptsGenerated(gen[2])
    THEN [t EXCEPT !.files_to_create = Append(@, gen)]
    ELSE IF t.detected_language = "python"
         THEN [t EXCEPT !.files_to_create = Append(@, <<"app.py", "python_quick_script">>)]
         ELSE t

\* NothingToCreate with a fault: a plan that asks for packages is executed
\* although it has no files
NothingToCreate_NoPackages(t) == t.files_to_create = <<>> /\ t.required_packages = <<>>

\* line 1402: `if not task.files_to_create`
NothingToCreate(t) == t.files_to_create = <<>>

\* UseAi with a fault: the client is not looked at
UseAi_NoClientCheck(description) == Len(description) > 10

\* line 1379
UseAi(description) == ai_client # None /\ Len(description) > 10

\* `vibe <description>`: with nothing to build the usage is shown and the
\* handler returns; otherwise plan, generate when asked for, then either report
\* that nothing could be generated or call execute_task(task, auto_confirm=False)
CmdVibe ==
    /\ pc = "prompt"
    /\ lines < MaxLines
    /\ lines' = lines + 1
    /\ cmd' = "vibe"
    /\ \E description \in Descriptions :
          IF description = <<>>
          THEN /\ out' = <<"usage">>
               /\ gen_log' = <<>>
               /\ generated' = <<>>
               /\ UNCHANGED <<execVars, pc>>
          ELSE LET planned == Stamped(Planned[<<description, available_editors>>], lines')
                   generate == UseAi(description) /\ planned.files_to_create = <<>>
               IN \E k \in (IF generate THEN 0..Len(models_to_try) ELSE {0}),
                     response \in (IF generate THEN Responses ELSE {""}) :
                     LET gen == GenResult(k, response, planned.detected_language)
                         final == IF generate THEN WithGenerated(planned, gen) ELSE planned
                     IN /\ gen_log' = (IF generate THEN GenCalls(k) ELSE <<>>)
                        /\ generated' = (IF generate THEN gen ELSE <<>>)
                        /\ task' = final
                        /\ IF NothingToCreate(final)
                           THEN /\ out' = <<"could_not_generate">>
                                /\ UNCHANGED <<caller, auto_confirm, phase, idx, ledger,
                                               result, runs, pc>>
                           ELSE /\ out' = <<>>
                                /\ caller' = "cmd_vibe"
                                /\ auto_confirm' = FALSE
                                /\ phase' = "PENDING"
                                /\ idx' = 0
                                /\ ledger' = <<>>
                                /\ result' = None
                                /\ runs' = runs + 1
                                /\ pc' = "execute"
    /\ UNCHANGED <<line, args, resolveVars, invVars, screenVars, fs>>

\* ================================================= TermuxOrchestrator.cmd_pkg
\* packages typed after `pkg install`
InstallablePkgs == {"python", "nano"}

\* `pkg install <name>`: lines 1487-1498, with the rescan of line 1495
CmdPkgInstall ==
    /\ pc = "prompt"
    /\ lines < MaxLines
    /\ lines' = lines + 1
    /\ cmd' = "pkg"
    /\ gen_log' = <<>>
    /\ \E name \in InstallablePkgs, outcome \in {"ok", "failed", "raised"} :
          CASE outcome = "ok" ->
                 /\ real_pkgs' = real_pkgs \cup {name}
                 /\ \E listed \in BOOLEAN :
                       installed_packages' = installed_packages \cup {name}
                           \cup (IF is_termux /\ listed THEN real_pkgs' ELSE {})
                 /\ available_editors' = available_editors
                           \cup (IF is_termux THEN real_pkgs' \cap Editors ELSE {})
                 /\ \E listed \in BOOLEAN :
                       python_packages' = python_packages
                           \cup (IF is_termux /\ listed THEN real_pip ELSE {})
                 /\ out' = <<"installed">>
            [] outcome = "failed" ->
                 /\ out' = <<"install_failed">>
                 /\ UNCHANGED <<real_pkgs, installed_packages, available_editors,
                                python_packages>>
            [] outcome = "raised" ->
                 /\ out' = <<"error">>
                 /\ UNCHANGED <<real_pkgs, installed_packages, available_editors,
                                python_packages>>
    /\ UNCHANGED <<loopVars, resolveVars, real_pip, is_termux, screenVars, execVars, fs, pc>>

\* ================================================= ScreenReader.capture_screen
Tried(method, outcome) == [method |-> method, outcome |-> outcome]

\* lines 504-527 and 592-636: the text file is written first (which may fail);
\* with PIL the text is rendered to the image, and if that fails the text file
\* is written again (which may fail too); any exception yields None
BufferOutcomes ==
    IF pil_available
    THEN {"write_failed", "image", "image_failed_text", "image_failed_write_failed"}
    ELSE {"write_failed", "text"}

\* method 3 alone
BufferRuns == {<<Tried("terminal_buffer", o)>> : o \in BufferOutcomes}

\* CameraRuns with a fault: method 3 is run after method 2 succeeded as well
CameraRuns_NoReturn ==
    BufferRuns
    \cup {<<Tried("termux-camera-photo", o)>> \o r : o \in {"ok", "failed"}, r \in BufferRuns}

\* method 2 and what follows it: termux-camera-photo is not installed, or it
\* is run and succeeds, or it is run and fails and method 3 follows
CameraRuns ==
    BufferRuns
    \cup {<<Tried("termux-camera-photo", "ok")>>}
    \cup {<<Tried("termux-camera-photo", "failed")>> \o r : r \in BufferRuns}

\* lines 474-502: method 1 only on a rooted device, then methods 2 and 3
CaptureRuns ==
    IF is_rooted
    THEN {<<Tried("screencap", "ok")>>}
         \cup {<<Tried("screencap", "failed")>> \o r : r \in CameraRuns}
    ELSE CameraRuns

Last(s) == s[Len(s)]

\* the path capture_screen returns for capture number n, NoShot for None
CapturePath(run, n) ==
    CASE Last(run).outcome \in {"ok", "image"} -> <<n, "png">>
      [] Last(run).outcome \in {"text", "image_failed_text"} -> <<n, "txt">>
      [] OTHER -> NoShot

\* the files capture number n leaves in the screenshot directory
CaptureFiles(run, n) ==
    CASE Last(run).outcome = "ok" -> {<<n, "png">>}
      [] Last(run).outcome = "image" -> {<<n, "txt">>, <<n, "png">>}
      [] Last(run).outcome \in {"text", "image_failed_text", "image_failed_write_failed"} ->
             {<<n, "txt">>}
      [] OTHER -> {}

\* lines 482 and 496: only methods 1 and 2 assign last_screenshot
CaptureLast(run, n, last) ==
    IF Last(run).outcome = "ok" THEN <<n, "png">> ELSE last

\* get_last_screenshot_info, lines 695-706
ScreenshotInfo(last, files) ==
    IF last = NoShot \/ last \notin files THEN "No screenshot available"
    ELSE "Screenshot info"

\* `look [query]`: capture, show the capture info, then the analysis when an
\* AI client exists and the location of the artifact when none does
CmdLook ==
    /\ pc = "prompt"
    /\ lines < MaxLooks
    /\ lines' = lines + 1
    /\ cmd' = "look"
    /\ gen_log' = <<>>
    /\ captures' = captures + 1
    /\ \E run \in CaptureRuns :
          /\ capture_log' = run
          /\ shot_path' = CapturePath(run, captures')
          /\ shots' = shots \cup CaptureFiles(run, captures')
          /\ last_screenshot' = CaptureLast(run, captures', last_screenshot)
          /\ IF shot_path' = NoShot
             THEN out' = <<"capture_failed">>
             ELSE IF ai_client # None
                  THEN \E analysis \in {"analysis", "analysis_error"} :
                           out' = <<ScreenshotInfo(last_screenshot', shots'), analysis>>
                  ELSE out' = <<ScreenshotInfo(last_screenshot', shots'),
                                "not_analyzed", "location">>
    /\ UNCHANGED <<loopVars, resolveVars, invVars, execVars, is_rooted, pil_available, fs, pc>>

\* ================================================= the prompt loop
\* what _init_ai_client left: no client, or the client of the first credential
InitClient ==
    /\ ai_client \in {None, api_keys[1]}
    /\ env = [v \in Candidates |-> IF v = ai_client THEN "set" ELSE "absent"]
    /\ probe_ok = [v \in Candidates |-> v = ai_client]
    /\ ai_idx = (IF ai_client = None THEN Len(api_keys) + 1 ELSE 1)
    /\ attempts = (IF ai_client = None THEN <<>>
                   ELSE <<[candidate |-> ai_client, status |-> "ok"]>>)

\* the orchestrator once constructed, at its first prompt
InitShell ==
    /\ InitClient
    /\ pc = "prompt"
    /\ caller = None
    /\ task = NoTask
    /\ auto_confirm = FALSE
    /\ phase = "IDLE" /\ idx = 0 /\ ledger = <<>> /\ result = None /\ runs = 0
    /\ fs = {} /\ out = <<>> /\ gen_log = <<>>
    /\ last_screenshot = NoShot /\ capture_log = <<>>
    /\ shots = {} /\ captures = 0 /\ shot_path = NoShot
    /\ cmd = None /\ lines = 0
    /\ line = <<>> /\ args = <<>> /\ generated = <<>>

\* the prompt loop on vibe and pkg install lines
Init ==
    /\ InitShell
    /\ InitInventory({"python", "nano"}, {"flask"})
    /\ is_rooted = FALSE /\ pil_available = FALSE

Next ==
    \/ CmdVibe
    \/ CmdPkgInstall
    \/ ExecuteStep

Spec == Init /\ [][Next]_vars

\* the prompt loop on look lines, on every kind of device
InitLook ==
    /\ InitShell
    /\ InitInventory({}, {})
    /\ is_rooted \in BOOLEAN /\ pil_available \in BOOLEAN

NextLook == CmdLook

SpecLook == InitLook /\ [][NextLook]_vars

\* process_request called on its own, in every environment
NextPlan == CallProcessRequest

SpecPlan == Init /\ [][NextPlan]_vars

\* ------------------------------------------------ claims on process_request
WebServerRequest == <<"c", "r", "e", "a", "t", "e", " ", "a", " ", "p", "y", "t", "h", "o", "n", " ", "w", "e", "b", " ", "s", "e", "r", "v", "e", "r">>

Planning == cmd = "process_request"

\* str.strip() of a keyword: 'js ', 'ts ', 'go ' and 'c ' end in a space
RECURSIVE StripKeyword(_)
StripKeyword(k) ==
    IF k # <<>> /\ Last(k) = " " THEN StripKeyword(SubSeq(k, 1, Len(k) - 1)) ELSE k

\* the keyword occurs in the text as whole tokens (words separated by spaces)
TokenMatch(keyword, text) ==
    Contains(<<" ">> \o StripKeyword(keyword) \o <<" ">>, <<" ">> \o text \o <<" ">>)

TokenLangMatches(i, desc_lower) ==
    \E k \in 1..Len(lang_patterns[i][2]) : TokenMatch(lang_patterns[i][2][k], desc_lower)

\* the language token-based first-match-wins detection gives
TokenLanguage(desc_lower) ==
    IF \E i \in 1..Len(lang_patterns) : TokenLangMatches(i, desc_lower)
    THEN lang_patterns[CHOOSE i \in 1..Len(lang_patterns) :
                          /\ TokenLangMatches(i, desc_lower)
                          /\ \A j \in 1..(i - 1) : ~TokenLangMatches(j, desc_lower)][1]
    ELSE None

TokenLanguages ==
    [d \in PlanDescriptions |-> TokenLanguage(ToLower(d))] @@ <<>>

\* C13 as claimed: the detected language is the first language of the table
\* one of whose keywords is a token of the lower-cased description; a keyword
\* inside a longer token does not count; no match leaves it unset.
C13_TokenDetection ==
    Planning => task.detected_language = TokenLanguages[task.description]

\* C14: process_request("create a python web server") detects python, plans
\* exactly one file and at least one command, and requires ('pkg','python'),
\* whatever editors the environment has and whether or not an AI client exists.
C14_PlanningDeterminism ==
    (Planning /\ task.description = WebServerRequest) =>
        /\ task.detected_language = "python"
        /\ Len(task.files_to_create) = 1
        /\ Len(task.commands_to_run) >= 1
        /\ <<"pkg", "python">> \in Range(task.required_packages)

\* witness of C14: the request was planned with no editor known and an AI
\* client resolved
C14_Witness ==
    /\ Planning
    /\ task.description = WebServerRequest
    /\ available_editors = {}
    /\ ai_client # None
    /\ task.files_to_create = <<<<"server.py", "python_web_server">>>>

\* C15: process_request("") returns a Task with no files, no commands and no
\* detected language.
C15_PlanningEmptiness ==
    (Planning /\ task.description = <<>>) =>
        /\ task.files_to_create = <<>>
        /\ task.commands_to_run = <<>>
        /\ task.detected_language = None

\* witness of C15: the empty description was planned where no editor is
\* known, so the Task is not empty altogether: it asks for nano
C15_Witness ==
    /\ Planning
    /\ task.description = <<>>
    /\ task.id = lines
    /\ task.required_packages = <<<<"pkg", "nano">>>>

\* C16: the Task process_request returns has at most one file, the file of
\* the first template, in the order web server + python, backup + bash,
\* quick script + python, whose condition the description meets.
C16_AtMostOneTemplate ==
    Planning =>
        LET d == ToLower(task.description)
            lang == task.detected_language
        IN /\ Len(task.files_to_create) <= 1
           /\ task.files_to_create =
                 (IF Contains(kw_web_server, d) /\ lang = "python"
                  THEN <<<<"server.py", "python_web_server">>>>
                  ELSE IF Contains(kw_backup, d) /\ lang = "bash"
                  THEN <<<<"backup.sh", "bash_backup_script">>>>
                  ELSE IF Contains(kw_quick_script, d) /\ lang = "python"
                  THEN <<<<"script.py", "python_quick_script">>>>
                  ELSE <<>>)

\* witness of C16: a description that meets the conditions of the web-server
\* and of the quick-script template was planned with the first one only
C16_Witness ==
    /\ Planning
    /\ Contains(kw_web_server, task.description)
    /\ Contains(kw_quick_script, task.description)
    /\ task.detected_language = "python"
    /\ task.files_to_create = <<<<"server.py", "python_web_server">>>>

\* ================================================= the prompt loop: dispatch
\* str.strip() and str.split(maxsplit=1) on lines whose only whitespace is " "
RECURSIVE StripLeft(_)
StripLeft(str) ==
    IF str # <<>> /\ Head(str) = " " THEN StripLeft(Tail(str)) ELSE str

RECURSIVE StripRight(_)
StripRight(str) ==
    IF str # <<>> /\ Last(str) = " " THEN StripRight(SubSeq(str, 1, Len(str) - 1)) ELSE str

Strip(str) == StripLeft(StripRight(str))

\* position of the first space of a stripped string, 0 when it has none
FirstSpace(str) ==
    IF \E i \in 1..Len(str) : str[i] = " "
    THEN CHOOSE i \in 1..Len(str) : str[i] = " " /\ \A j \in 1..(i - 1) : str[j] # " "
    ELSE 0

\* parts[0] of str.split(maxsplit=1)
FirstWord(str) ==
    IF FirstSpace(str) = 0 THEN str ELSE SubSeq(str, 1, FirstSpace(str) - 1)

\* parts[1] of str.split(maxsplit=1), "" when there is one part only
RestWords(str) ==
    IF FirstSpace(str) = 0 THEN <<>>
    ELSE StripLeft(SubSeq(str, FirstSpace(str) + 1, Len(str)))

\* self.aliases, lines 992-1000
aliases ==
    <<<<<<"v">>, <<"v", "i", "b", "e">>>>,
      <<<<"c">>, <<"c", "o", "d", "e">>>>,
      <<<<"?">>, <<"h", "e", "l", "p">>>>,
      <<<<"h">>, <<"h", "e", "l", "p">>>>,
      <<<<"q">>, <<"e", "x", "i", "t">>>>,
      <<<<"c", "l", "s">>, <<"c", "l", "e", "a", "r">>>>,
      <<<<".", ".">>, <<"c", "d", " ", ".", ".">>>>>>

IsAlias(c) == \E i \in 1..Len(aliases) : aliases[i][1] = c

AliasTarget(c) == aliases[CHOOSE i \in 1..Len(aliases) : aliases[i][1] = c][2]

\* self.builtins, lines 957-990: command word and the handler it is bound to
\* (cmd_<handler>; ls and pwd are lambdas)
builtins ==
    <<<<<<"v", "i", "b", "e">>, "vibe">>,
      <<<<"c", "o", "d", "e">>, "vibe">>,
      <<<<"m", "a", "k", "e">>, "vibe">>,
      <<<<"c", "r", "e", "a", "t", "e">>, "vibe">>,
      <<<<"p", "k", "g">>, "pkg">>,
      <<<<"a", "p", "t">>, "pkg">>,
      <<<<"t", "o", "o", "l", "s">>, "tools">>,
      <<<<"a", "i">>, "ai">>,
      <<<<"a", "s", "k">>, "ai">>,
      <<<<"s", "e", "a", "r", "c", "h">>, "search">>,
      <<<<"w", "e", "b">>, "web">>,
      <<<<"f", "i", "l", "e", "s">>, "files">>,
      <<<<"e", "d", "i", "t">>, "edit">>,
      <<<<"p", "a", "s", "t", "e">>, "paste">>,
      <<<<"c", "a", "t">>, "cat">>,
      <<<<"v", "i", "e", "w">>, "cat">>,
      <<<<"c", "d">>, "cd">>,
      <<<<"l", "s">>, "ls">>,
      <<<<"l", "l">>, "ls">>,
      <<<<"h", "i", "s", "t", "o", "r", "y">>, "history">>,
      <<<<"c", "l", "e", "a", "r">>, "clear">>,
      <<<<"h", "e", "l", "p">>, "help">>,
      <<<<"e", "x", "i", "t">>, "exit">>,
      <<<<"q", "u", "i", "t">>, "exit">>,
      <<<<"p", "w", "d">>, "pwd">>,
      <<<<"s", "t", "a", "t", "s">>, "stats">>,
      <<<<"c", "o", "n", "t", "e", "x", "t">>, "context">>,
      <<<<"u", "p", "d", "a", "t", "e">>, "update">>,
      <<<<"p", "r", "o", "j", "e", "c", "t", "s">>, "projects">>,
      <<<<"l", "o", "o", "k">>, "look">>,
      <<<<"s", "e", "e">>, "look">>,
      <<<<"s", "c", "r", "e", "e", "n">>, "look">>>>

IsBuiltin(w) == \E i \in 1..Len(builtins) : builtins[i][1] = w

BuiltinHandler(w) == builtins[CHOOSE i \in 1..Len(builtins) : builtins[i][1] = w][2]

cd_up == <<"c", "d", " ", ".", ".">>

\* lines 1162-1189: what _prompt_loop does with the line it read: nothing for
\* a blank line, cd for '..' and '../', an alias replaced when the whole line
\* is the alias, then the builtin of the first word, else the external shell
Dispatch(raw) ==
    LET c == Strip(raw)
    IN IF c = <<>> THEN [handler |-> None, args |-> <<>>]
       ELSE IF c \in {<<".", ".">>, <<".", ".", "/">>} THEN [handler |-> "cd", args |-> cd_up]
       ELSE LET c2 == IF IsAlias(c) THEN AliasTarget(c) ELSE c
                base_cmd == FirstWord(c2)
            IN IF IsBuiltin(base_cmd)
               THEN [handler |-> BuiltinHandler(base_cmd),
                     args |-> IF RestWords(c2) # <<>> THEN c2 ELSE base_cmd]
               ELSE [handler |-> "external", args |-> c2]

\* lines typed at the prompt
TypedLines ==
    {<<"v">>,
     <<"v", " ", "m", "a", "k", "e", " ", "a", "p", "p">>,
     <<"v", "i", "b", "e", " ", "m", "a", "k", "e", " ", "a", "p", "p">>,
     <<"c">>,
     <<"c", " ", "x">>,
     <<"c", "o", "d", "e", " ", "x">>,
     <<"?">>,
     <<"?", " ", "p", "k", "g">>,
     <<"h", "e", "l", "p", " ", "p", "k", "g">>,
     <<"h">>,
     <<"h", "e", "l", "p">>,
     <<"q">>,
     <<"q", " ", "n", "o", "w">>,
     <<"e", "x", "i", "t">>,
     <<"e", "x", "i", "t", " ", "n", "o", "w">>,
     <<" ", "q", " ">>,
     <<>>,
     <<" ", " ">>,
     <<".", ".">>,
     <<"c", "l", "s">>,
     <<"l", "o", "o", "k">>,
     <<"l", "s">>,
     <<"f", "o", "o">>}

Dispatched == [l \in TypedLines |-> Dispatch(l)] @@ <<>>

\* what console.input leaves in `line` when it raises instead of returning
Eof == <<"EOFError">>
Interrupted == <<"KeyboardInterrupt">>

\* console.input returned a line: lines 1162-1189 up to the call of the handler
ReadLine ==
    /\ pc = "prompt"
    /\ lines < MaxTyped
    /\ lines' = lines + 1
    /\ \E l \in TypedLines :
          /\ line' = l
          /\ cmd' = Dispatched[l].handler
          /\ args' = Dispatched[l].args
          /\ pc' = (IF Dispatched[l].handler = None THEN "prompt" ELSE "handler")
    /\ out' = <<>>
    /\ UNCHANGED <<generated, resolveVars, invVars, screenVars, execVars, fs, gen_log>>

\* console.input hit end-of-file: EOFError is an Exception, so the handler of
\* line 1193 prints it and _prompt_loop returns; run's `except EOFError` is
\* not reached and the while loop goes round
ReadEof ==
    /\ pc = "prompt"
    /\ lines < MaxTyped
    /\ lines' = lines + 1
    /\ line' = Eof
    /\ cmd' = None
    /\ args' = <<>>
    /\ out' = <<"error">>
    /\ pc' = "prompt"
    /\ UNCHANGED <<generated, resolveVars, invVars, screenVars, execVars, fs, gen_log>>

\* ^C at the prompt: re-raised at line 1191, printed by run, the loop goes round
ReadInterrupt ==
    /\ pc = "prompt"
    /\ lines < MaxTyped
    /\ lines' = lines + 1
    /\ line' = Interrupted
    /\ cmd' = None
    /\ args' = <<>>
    /\ out' = <<"^C">>
    /\ pc' = "prompt"
    /\ UNCHANGED <<generated, resolveVars, invVars, screenVars, execVars, fs, gen_log>>

\* how a handler can end: cmd_exit by sys.exit(0); _run_external catches what
\* the command raises; every other handler returns, raises, or is interrupted
HandlerOutcomes(handler) ==
    CASE handler = "exit" -> {"exit"}
      [] handler \in {"external", "ls"} -> {"returned", "interrupted"}
      [] OTHER -> {"returned", "raised", "interrupted"}

\* HandlerEnds with a fault: an exception of a handler is not caught
HandlerEnds_Fatal ==
    /\ pc = "handler"
    /\ \E outcome \in HandlerOutcomes(cmd) :
          /\ out' = <<outcome>>
          /\ pc' = (IF outcome \in {"exit", "raised"} THEN "exited" ELSE "prompt")
    /\ UNCHANGED <<loopVars, resolveVars, invVars, screenVars, execVars, fs, gen_log,
                   lines, cmd>>

\* the handler called at line 1184 (or _run_external at line 1189) ends:
\* it returns; its Exception is printed at line 1194; its KeyboardInterrupt is
\* printed by run at line 1129; SystemExit passes every except clause
HandlerEnds ==
    /\ pc = "handler"
    /\ \E outcome \in HandlerOutcomes(cmd) :
          CASE outcome = "returned" -> out' = <<>> /\ pc' = "prompt"
            [] outcome = "raised" -> out' = <<"error">> /\ pc' = "prompt"
            [] outcome = "interrupted" -> out' = <<"^C">> /\ pc' = "prompt"
            [] outcome = "exit" -> out' = <<"goodbye">> /\ pc' = "exited"
    /\ UNCHANGED <<loopVars, resolveVars, invVars, screenVars, execVars, fs, gen_log,
                   lines, cmd>>

\* the orchestrator at its first prompt; what the handlers do to the rest of
\* the state is the matter of Spec and SpecLook
InitLoop ==
    /\ InitShell
    /\ InitInventory({}, {})
    /\ is_rooted = FALSE /\ pil_available = FALSE

NextLoop ==
    \/ ReadLine
    \/ ReadEof
    \/ ReadInterrupt
    \/ HandlerEnds

SpecLoop == InitLoop /\ [][NextLoop]_vars

\* ------------------------------------------------ claims on the prompt loop
\* C21: a handler that raises (or is interrupted) leaves the loop at the
\* prompt; the loop ends only from the exit handler, and reading a line never
\* ends it.
C21_LoopSurvivesFailures ==
    [][/\ (pc = "handler" /\ cmd # "exit") => pc' = "prompt"
       /\ pc = "prompt" => pc' \in {"prompt", "handler"}
       /\ pc' = "exited" => (pc = "handler" /\ cmd = "exit")
      ]_vars

\* witness of C21: the vibe handler raised, the error was printed and the
\* loop is at the prompt
C21_Witness ==
    /\ cmd = "vibe"
    /\ out = <<"error">>
    /\ pc = "prompt"
    /\ lines < MaxTyped

\* C24 as claimed: once reading a line has hit end-of-file the loop has ended.
C24_EofEndsLoop ==
    line = Eof => pc = "exited"

\* the aliases of the help text
HelpAliases == {<<"v">>, <<"c">>, <<"?">>, <<"h">>, <<"q">>}

\* the line with its first word, an alias, replaced by the alias's target
AliasExpanded(c) ==
    AliasTarget(FirstWord(c)) \o
    (IF RestWords(c) = <<>> THEN <<>> ELSE <<" ">> \o RestWords(c))

\* C30 as claimed: a line whose first word is one of v, c, ?, h, q reaches the
\* handler, with the arguments, that the line with the alias replaced by its
\* target reaches, and never the external shell.
C30_AliasesDispatchLikeTargets ==
    (line \in TypedLines /\ FirstWord(Strip(line)) \in HelpAliases) =>
        /\ cmd = Dispatch(AliasExpanded(Strip(line))).handler
        /\ args = Dispatch(AliasExpanded(Strip(line))).args
        /\ cmd # "external"

\* ------------------------------------------------ claims on cmd_vibe
AllModelsFailed ==
    /\ cmd = "vibe"
    /\ gen_log # <<>>
    /\ \A i \in 1..Len(gen_log) : gen_log[i].status = "failed"

\* C6 as claimed: when no template matched and every model called by the
\* generative step failed, the Task has no files, cmd_vibe reports that it
\* could not generate code, and execute_task is not called.
C6_GenerativeFailureEmptyPlan ==
    AllModelsFailed =>
        /\ task.files_to_create = <<>>
        /\ out = <<"could_not_generate">>
        /\ pc = "prompt"
        /\ caller # "cmd_vibe"

\* C17 as claimed: for a non-empty description that no template matched, with
\* an AI client resolved, generated source is requested, whatever the length
\* of the description.
C17_GenerativeFallbackRequested ==
    (/\ cmd = "vibe"
     /\ out # <<"usage">>
     /\ task.description # <<>>
     /\ ai_client # None
     /\ Planned[<<task.description, {}>>].files_to_create = <<>>) =>
        gen_log # <<>>

\* C25: generate_code_with_ai calls the models in the order of models_to_try;
\* every call before the last one failed (a failure goes on to the next model,
\* nothing is called after a success); what it returns is the answer of the
\* model that succeeded, or ("", "All AI models failed") once all four failed.
C25_ModelFallbackChain ==
    (cmd = "vibe" /\ gen_log # <<>>) =>
        /\ Len(gen_log) <= Len(models_to_try)
        /\ \A i \in 1..Len(gen_log) : gen_log[i].model = models_to_try[i]
        /\ \A i \in 1..(Len(gen_log) - 1) : gen_log[i].status = "failed"
        /\ Last(gen_log).status = "ok" =>
              /\ generated[1] = GenFileName(task.detected_language)
              /\ generated[2] \in Responses
        /\ Last(gen_log).status = "failed" =>
              /\ Len(gen_log) = Len(models_to_try)
              /\ generated = <<"", "All AI models failed">>

\* witness of C25: the first two models failed, the third answered and its
\* code was returned
C25_Witness ==
    /\ cmd = "vibe"
    /\ Len(gen_log) = 3
    /\ gen_log[3] = [model |-> "gpt-3.5-turbo", status |-> "ok"]
    /\ generated = <<"gen.rs", "generated code">>

\* the last line was a vibe line with something to build
VibeRequest == cmd = "vibe" /\ out # <<"usage">> /\ task.description # <<>>

\* C27: with no AI client, cmd_vibe never calls generate_code_with_ai and the
\* Task's files are those of the template that matched, none when none did.
C27_TemplateOnlyWithoutAi ==
    (VibeRequest /\ ai_client = None) =>
        /\ gen_log = <<>>
        /\ generated = <<>>
        /\ task.files_to_create = Planned[<<task.description, {}>>].files_to_create
        /\ task.files_to_create # <<>> <=>
              TemplateFor(ToLower(task.description), task.detected_language) # None

\* witness of C27: with no AI client a long description no template matches
\* was answered with "could not generate"
C27_Witness ==
    /\ VibeRequest
    /\ ai_client = None
    /\ Len(task.description) > 10
    /\ task.detected_language = "rust"
    /\ out = <<"could_not_generate">>

\* C28: a vibe line whose Task, after the generative step, has no files is
\* answered with "could not generate" and goes back to the prompt:
\* execute_task is not called, nothing is installed, written or run, and the
\* inventory is as it was.
C28_EmptyPlanNotExecuted ==
    [][(/\ cmd' = "vibe"
        /\ lines' # lines
        /\ out' # <<"usage">>
        /\ task'.files_to_create = <<>>) =>
           /\ out' = <<"could_not_generate">>
           /\ pc' = "prompt"
           /\ UNCHANGED <<runs, phase, ledger, fs, invVars>>
      ]_vars

\* witness of C28: a plan that asks for a package but has no files was
\* reported and not executed
C28_Witness ==
    /\ VibeRequest
    /\ task.files_to_create = <<>>
    /\ task.required_packages = <<<<"pkg", "nano">>>>
    /\ out = <<"could_not_generate">>
    /\ runs = 0
    /\ pc = "prompt"

\* ------------------------------------------------ claims on cmd_look
\* C7 as claimed: on a device where neither privileged nor vendor-API capture
\* is available and no AI client was resolved, look still yields an artifact
\* from the terminal buffer and reports its location, never a failure.
C7_LookNeverFails ==
    (/\ cmd = "look"
     /\ ai_client = None
     /\ Len(capture_log) = 1
     /\ capture_log[1].method = "terminal_buffer") =>
        /\ shot_path # NoShot
        /\ out # <<"capture_failed">>
        /\ \E i \in 1..Len(out) : out[i] = "location"

MethodRank(method) ==
    CASE method = "screencap" -> 1
      [] method = "termux-camera-photo" -> 2
      [] method = "terminal_buffer" -> 3

Succeeded(tried) == tried.outcome \in {"ok", "image", "text", "image_failed_text"}

\* C19: the methods capture_screen invokes are in the order privileged,
\* vendor-API, terminal buffer; privileged capture is invoked exactly on a
\* rooted device, and then first; every method invoked before the last one
\* failed (nothing is invoked after a success); what is returned is the
\* artifact of the method that succeeded.
C19_CapturePriority ==
    cmd = "look" =>
        /\ capture_log # <<>>
        /\ \A i, j \in 1..Len(capture_log) :
              i < j => MethodRank(capture_log[i].method) < MethodRank(capture_log[j].method)
        /\ is_rooted <=> capture_log[1].method = "screencap"
        /\ \A i \in 1..(Len(capture_log) - 1) : ~Succeeded(capture_log[i])
        /\ ~Succeeded(Last(capture_log)) => Last(capture_log).method = "terminal_buffer"
        /\ Succeeded(Last(capture_log)) <=> shot_path # NoShot
        /\ shot_path # NoShot =>
              /\ shot_path[1] = captures
              /\ shot_path \in shots
              /\ (Last(capture_log).method # "terminal_buffer" <=> last_screenshot = shot_path)

\* witness of C19: on a rooted device privileged capture failed, vendor-API
\* capture succeeded and its artifact was returned
C19_Witness ==
    /\ cmd = "look"
    /\ is_rooted
    /\ capture_log = <<Tried("screencap", "failed"), Tried("termux-camera-photo", "ok")>>
    /\ shot_path = <<captures, "png">>

\* C29 as claimed: after a capture that returned an artifact, last_screenshot
\* is that artifact and the info cmd_look shows describes it.
C29_LastScreenshotTracks ==
    (cmd = "look" /\ shot_path # NoShot) =>
        /\ last_screenshot = shot_path
        /\ out[1] = "Screenshot info"

====
